---- MODULE Spec2Model ----
(***************************************************************************)
(* Model of integration/aws/lambda_function.py: ClaytipDatabaseInitFn, the *)
(* custom-resource lambda that creates a database on a PostgreSQL server   *)
(* and runs index.sql against it.                                          *)
(*                                                                         *)
(* One action per statement group of the handler.  The PostgreSQL server   *)
(* is the pair (databases, contents); the handler's locals are dbname,     *)
(* sql, conn, conn2.  log is the sequence of driver and file calls the     *)
(* current invocation has made, in program order.                          *)
(***************************************************************************)
EXTENDS Naturals, Sequences, FiniteSets

VARIABLES
    inv,        \* number of invocations of handler() so far
    pc,         \* position of the running invocation inside the handler
    event,      \* the event handler() was called with
    dbname,     \* local dbname of create()
    sql,        \* local sql of create()
    conn,       \* local conn of create()
    conn2,      \* local conn2 of create()
    log,        \* calls made by the running invocation, in order
    result,     \* what the CfnResource helper reports for the invocation
    error,      \* the exception that left create(), if any
    databases,  \* names of the databases on the server
    contents,   \* per database, how many runs of the script it holds
    scriptRuns, \* per database, how many times cur2.execute(sql) was issued
    createOk,   \* per database, how many CREATE DATABASE statements succeeded
    dbs0,       \* databases when the running invocation started
    contents0,  \* contents when the running invocation started
    indexSql    \* the file index.sql of the working directory

vars == <<inv, pc, event, dbname, sql, conn, conn2, log, result, error,
          databases, contents, scriptRuns, createOk, dbs0, contents0, indexSql>>

\* Bound on the number of invocations of the lambda in one behaviour.
MaxInvocations == 3

\* Values of CLAY_DATABASE_NAME: plain lower-case identifiers, for which the
\* name in the statement and the name in the connection parameters denote
\* the same database.
DbNames == {"postgres", "appdb", "metrics"}

\* index.sql is absent or holds one of these texts.
NoFile == "<no file>"

ScriptTexts == {"CREATE TABLE t (id int);", "CREATE TABLE sentinel (id int);"}

RequestTypes == {"Create", "Update", "Delete"}

Payloads == {"none", "properties"}

\* A local that has not been assigned yet.
NoConn == [database |-> "", autocommit |-> FALSE, status |-> "unset"]

\* psycopg2.connect(..., database=d): a fresh connection, not yet autocommit.
NewConn(d) == [database |-> d, autocommit |-> FALSE, status |-> "open"]

\* conn.set_isolation_level(ISOLATION_LEVEL_AUTOCOMMIT)
SetAutocommit(c) == [c EXCEPT !.autocommit = TRUE]

\* conn.close()
Closed(c) == [c EXCEPT !.status = "closed"]

\* The connections the running invocation holds open.
OpenConns == {c \in {conn, conn2} : c.status = "open"}

\* f"CREATE DATABASE {dbname};" as its literal parts and the interpolated name.
CreateDatabaseStmt(name) == <<"CREATE DATABASE ", name, ";">>

\* The database a CREATE DATABASE statement names, as the server parses it.
StmtTarget(stmt) == stmt[2]

\* One entry of log: the call, the connection it ran on and its outcome.
Call(op, c, arg, ok) ==
    [op |-> op, db |-> c.database, autocommit |-> c.autocommit, arg |-> arg, ok |-> ok]

\* An exception leaves create(): CfnResource reports the operation failed.
Raise(err) ==
    /\ pc' = "done"
    /\ result' = "FAILED"
    /\ error' = err

Init ==
    /\ inv = 0
    /\ pc = "idle"
    /\ event = [RequestType |-> "none", payload |-> "none"]
    /\ dbname = ""
    /\ sql = ""
    /\ conn = NoConn
    /\ conn2 = NoConn
    /\ log = <<>>
    /\ result = "none"
    /\ error = "none"
    /\ databases \in {S \cup {"postgres"} : S \in SUBSET DbNames}
    /\ contents = [d \in DbNames |-> 0]
    /\ scriptRuns = [d \in DbNames |-> 0]
    /\ createOk = [d \in DbNames |-> 0]
    /\ dbs0 = databases
    /\ contents0 = contents
    /\ indexSql \in ScriptTexts \cup {NoFile}

\* handler(event, context): helper(event, context) routes on RequestType.
Handler ==
    /\ pc \in {"idle", "done"}
    /\ inv < MaxInvocations
    /\ \E t \in RequestTypes, p \in Payloads :
         /\ event' = [RequestType |-> t, payload |-> p]
         /\ pc' = IF t = "Create" THEN "getenv" ELSE "no_op"
    /\ inv' = inv + 1
    /\ dbname' = ""
    /\ sql' = ""
    /\ conn' = NoConn
    /\ conn2' = NoConn
    /\ log' = <<>>
    /\ result' = "none"
    /\ error' = "none"
    /\ dbs0' = databases
    /\ contents0' = contents
    /\ UNCHANGED <<databases, contents, scriptRuns, createOk, indexSql>>

\* A mutant of NoOp: update and delete re-run the initialization.
NoOpRunsCreate ==
    /\ pc = "no_op"
    /\ pc' = "getenv"
    /\ UNCHANGED <<inv, event, dbname, sql, conn, conn2, log, result, error,
                   databases, contents, scriptRuns, createOk, dbs0, contents0, indexSql>>

\* no_op(_, __): pass
NoOp ==
    /\ pc = "no_op"
    /\ pc' = "done"
    /\ result' = "SUCCESS"
    /\ UNCHANGED <<inv, event, dbname, sql, conn, conn2, log, error,
                   databases, contents, scriptRuns, createOk, dbs0, contents0, indexSql>>

\* create(): the os.getenv calls; CLAY_DATABASE_NAME is read on every invocation.
GetEnv ==
    /\ pc = "getenv"
    /\ \E d \in DbNames : dbname' = d
    /\ pc' = "connect"
    /\ UNCHANGED <<inv, event, sql, conn, conn2, log, result, error,
                   databases, contents, scriptRuns, createOk, dbs0, contents0, indexSql>>

\* conn = psycopg2.connect(..., database="postgres")
Connect ==
    /\ pc = "connect"
    /\ \/ /\ "postgres" \in databases
          /\ conn' = NewConn("postgres")
          /\ log' = Append(log, Call("connect", NewConn("postgres"), <<"postgres">>, TRUE))
          /\ pc' = "set_isolation_level"
          /\ UNCHANGED <<result, error>>
       \/ /\ log' = Append(log, Call("connect", NoConn, <<"postgres">>, FALSE))
          /\ Raise("OperationalError")
          /\ UNCHANGED conn
    /\ UNCHANGED <<inv, event, dbname, sql, conn2,
                   databases, contents, scriptRuns, createOk, dbs0, contents0, indexSql>>

\* conn.set_isolation_level(ISOLATION_LEVEL_AUTOCOMMIT)
SetIsolationLevel ==
    /\ pc = "set_isolation_level"
    /\ conn' = SetAutocommit(conn)
    /\ pc' = "read_sql"
    /\ UNCHANGED <<inv, event, dbname, sql, conn2, log, result, error,
                   databases, contents, scriptRuns, createOk, dbs0, contents0, indexSql>>

\* A mutant of ReadSql: a missing index.sql is swallowed and the handler goes on.
ReadSqlSwallowsError ==
    /\ pc = "read_sql"
    /\ \/ /\ indexSql # NoFile
          /\ sql' = indexSql
          /\ log' = Append(log, Call("read", NoConn, <<"index.sql">>, TRUE))
       \/ /\ indexSql = NoFile
          /\ sql' = ""
          /\ log' = Append(log, Call("read", NoConn, <<"index.sql">>, FALSE))
    /\ pc' = "create_database"
    /\ UNCHANGED <<inv, event, dbname, conn, conn2, result, error,
                   databases, contents, scriptRuns, createOk, dbs0, contents0, indexSql>>

\* A mutant of ReadSql: the file is not read at this point of the handler.
ReadSqlSkipped ==
    /\ pc = "read_sql"
    /\ pc' = "create_database"
    /\ UNCHANGED <<inv, event, dbname, sql, conn, conn2, log, result, error,
                   databases, contents, scriptRuns, createOk, dbs0, contents0, indexSql>>

\* sql_file = open("index.sql", "r"); sql = sql_file.read()
ReadSql ==
    /\ pc = "read_sql"
    /\ \/ /\ indexSql # NoFile
          /\ sql' = indexSql
          /\ log' = Append(log, Call("read", NoConn, <<"index.sql">>, TRUE))
          /\ pc' = "create_database"
          /\ UNCHANGED <<result, error>>
       \/ /\ indexSql = NoFile
          /\ log' = Append(log, Call("read", NoConn, <<"index.sql">>, FALSE))
          /\ Raise("FileNotFoundError")
          /\ UNCHANGED sql
    /\ UNCHANGED <<inv, event, dbname, conn, conn2,
                   databases, contents, scriptRuns, createOk, dbs0, contents0, indexSql>>

\* A mutant of DatabaseExists: the server never reports a duplicate.
DatabaseNeverExists(d) == FALSE

\* The server's duplicate check for CREATE DATABASE d.
DatabaseExists(d) == d \in databases

\* A mutant of CreateDatabase: the duplicate-database error is caught and the
\* handler carries on with the existing database.
CreateDatabaseIgnoresDuplicate ==
    /\ pc = "create_database"
    /\ LET stmt == CreateDatabaseStmt(dbname)
           d    == StmtTarget(stmt)
       IN  /\ log' = Append(log, Call("execute_create", conn, stmt, ~DatabaseExists(d)))
           /\ databases' = databases \cup {d}
           /\ createOk' = IF DatabaseExists(d) THEN createOk
                          ELSE [createOk EXCEPT ![d] = @ + 1]
           /\ pc' = "close"
    /\ UNCHANGED <<inv, event, dbname, sql, conn, conn2, result, error,
                   contents, scriptRuns, dbs0, contents0, indexSql>>

\* cur = conn.cursor(); cur.execute(f"CREATE DATABASE {dbname};")
CreateDatabase ==
    /\ pc = "create_database"
    /\ LET stmt == CreateDatabaseStmt(dbname)
           d    == StmtTarget(stmt)
       IN  IF DatabaseExists(d)
           THEN /\ log' = Append(log, Call("execute_create", conn, stmt, FALSE))
                /\ Raise("DuplicateDatabase")
                /\ UNCHANGED <<databases, createOk>>
           ELSE /\ log' = Append(log, Call("execute_create", conn, stmt, TRUE))
                /\ databases' = databases \cup {d}
                /\ createOk' = [createOk EXCEPT ![d] = @ + 1]
                /\ pc' = "close"
                /\ UNCHANGED <<result, error>>
    /\ UNCHANGED <<inv, event, dbname, sql, conn, conn2,
                   contents, scriptRuns, dbs0, contents0, indexSql>>

\* A mutant of Close: the first connection is left open.
CloseForgotten ==
    /\ pc = "close"
    /\ pc' = "connect2"
    /\ UNCHANGED <<inv, event, dbname, sql, conn, conn2, log, result, error,
                   databases, contents, scriptRuns, createOk, dbs0, contents0, indexSql>>

\* cur.close(); conn.close()
Close ==
    /\ pc = "close"
    /\ conn' = Closed(conn)
    /\ log' = Append(log, Call("close", conn, <<>>, TRUE))
    /\ pc' = "connect2"
    /\ UNCHANGED <<inv, event, dbname, sql, conn2, result, error,
                   databases, contents, scriptRuns, createOk, dbs0, contents0, indexSql>>

\* A mutant of Connect2Database: the reconnect goes to the default database.
Connect2DatabasePostgres == "postgres"

\* The database argument of the second psycopg2.connect.
Connect2Database == dbname

\* conn2 = psycopg2.connect(..., database=dbname)
Connect2 ==
    /\ pc = "connect2"
    /\ \/ /\ Connect2Database \in databases
          /\ conn2' = NewConn(Connect2Database)
          /\ log' = Append(log, Call("connect", NewConn(Connect2Database),
                                     <<Connect2Database>>, TRUE))
          /\ pc' = "set_isolation_level2"
          /\ UNCHANGED <<result, error>>
       \/ /\ log' = Append(log, Call("connect", NoConn, <<Connect2Database>>, FALSE))
          /\ Raise("OperationalError")
          /\ UNCHANGED conn2
    /\ UNCHANGED <<inv, event, dbname, sql, conn,
                   databases, contents, scriptRuns, createOk, dbs0, contents0, indexSql>>

\* conn2.set_isolation_level(ISOLATION_LEVEL_AUTOCOMMIT)
SetIsolationLevel2 ==
    /\ pc = "set_isolation_level2"
    /\ conn2' = SetAutocommit(conn2)
    /\ pc' = "execute_script"
    /\ UNCHANGED <<inv, event, dbname, sql, conn, log, result, error,
                   databases, contents, scriptRuns, createOk, dbs0, contents0, indexSql>>

\* A mutant of ScriptApplied: the batch is applied twice.
ScriptAppliedTwice(n) == n + 2

\* The contents of a database after one more successful run of the script.
ScriptApplied(n) == n + 1

\* A mutant of ExecuteScript: a failed script drops the database it ran in.
ExecuteScriptRollsBack ==
    /\ pc = "execute_script"
    /\ scriptRuns' = [scriptRuns EXCEPT ![conn2.database] = @ + 1]
    /\ \/ /\ log' = Append(log, Call("execute_script", conn2, <<sql>>, TRUE))
          /\ contents' = [contents EXCEPT ![conn2.database] = ScriptApplied(@)]
          /\ pc' = "close2"
          /\ UNCHANGED <<result, error, databases>>
       \/ /\ log' = Append(log, Call("execute_script", conn2, <<sql>>, FALSE))
          /\ databases' = databases \ {conn2.database}
          /\ Raise("ProgrammingError")
          /\ UNCHANGED contents
    /\ UNCHANGED <<inv, event, dbname, sql, conn, conn2,
                   createOk, dbs0, contents0, indexSql>>

\* cur2 = conn2.cursor(); cur2.execute(sql)
ExecuteScript ==
    /\ pc = "execute_script"
    /\ scriptRuns' = [scriptRuns EXCEPT ![conn2.database] = @ + 1]
    /\ \/ /\ log' = Append(log, Call("execute_script", conn2, <<sql>>, TRUE))
          /\ contents' = [contents EXCEPT ![conn2.database] = ScriptApplied(@)]
          /\ pc' = "close2"
          /\ UNCHANGED <<result, error>>
       \/ /\ log' = Append(log, Call("execute_script", conn2, <<sql>>, FALSE))
          /\ Raise("ProgrammingError")
          /\ UNCHANGED contents
    /\ UNCHANGED <<inv, event, dbname, sql, conn, conn2,
                   databases, createOk, dbs0, contents0, indexSql>>

\* cur2.close(); conn2.close(); create() returns
Close2 ==
    /\ pc = "close2"
    /\ conn2' = Closed(conn2)
    /\ log' = Append(log, Call("close", conn2, <<>>, TRUE))
    /\ pc' = "done"
    /\ result' = "SUCCESS"
    /\ UNCHANGED <<inv, event, dbname, sql, conn, error,
                   databases, contents, scriptRuns, createOk, dbs0, contents0, indexSql>>

Next ==
    \/ Handler
    \/ NoOp
    \/ GetEnv
    \/ Connect
    \/ SetIsolationLevel
    \/ ReadSql
    \/ CreateDatabase
    \/ Close
    \/ Connect2
    \/ SetIsolationLevel2
    \/ ExecuteScript
    \/ Close2

Spec == Init /\ [][Next]_vars


(***************************************************************************)
(* Properties                                                              *)
(***************************************************************************)

\* Positions in log of the calls of one kind.
Calls(op) == {i \in DOMAIN log : log[i].op = op}

\* Positions in log of the calls of one kind that succeeded.
OkCalls(op) == {i \in Calls(op) : log[i].ok}

\* Positions in log of the calls that raised.
FailedCalls == {i \in DOMAIN log : ~log[i].ok}

IsCreate == event.RequestType = "Create"

\* C1: a create invocation whose two connections succeed, whose database did
\* not exist and whose script runs without error ends in success, with the
\* database present and the text of index.sql run against it exactly once.
C1_CreateInitializesOnce ==
    (/\ pc = "done"
     /\ IsCreate
     /\ dbname \notin dbs0
     /\ Cardinality(OkCalls("connect")) = 2
     /\ Calls("execute_script") \cap FailedCalls = {})
    => /\ result = "SUCCESS"
       /\ error = "none"
       /\ dbname \in databases
       /\ contents[dbname] = contents0[dbname] + 1
       /\ \A d \in DbNames \ {dbname} : contents[d] = contents0[d]
       /\ Cardinality(Calls("execute_script")) = 1
       /\ \A i \in Calls("execute_script") :
            /\ log[i].db = dbname
            /\ log[i].arg = <<indexSql>>
            /\ indexSql # NoFile

C1_Witness ==
    /\ pc = "done"
    /\ IsCreate
    /\ result = "SUCCESS"
    /\ dbname = "appdb"
    /\ dbname \notin dbs0
    /\ contents[dbname] = 1

\* C2: a create invocation for a database that already exists, once it issues
\* CREATE DATABASE, fails with the duplicate-database error; it never opens the
\* second connection and never executes the script, and the databases and
\* their contents stay as they were.
C2_DuplicateStopsHandler ==
    (IsCreate /\ dbname # "" /\ dbname \in dbs0)
    => /\ conn2 = NoConn
       /\ Cardinality(Calls("connect")) <= 1
       /\ Calls("execute_script") = {}
       /\ contents = contents0
       /\ databases = dbs0
       /\ Calls("execute_create") # {} =>
            /\ pc = "done"
            /\ result = "FAILED"
            /\ error = "DuplicateDatabase"
            /\ log[Len(log)].op = "execute_create"

C2_Witness ==
    /\ pc = "done"
    /\ IsCreate
    /\ dbname = "appdb"
    /\ dbname \in dbs0
    /\ error = "DuplicateDatabase"
    /\ contents["appdb"] = 0

\* C3 as stated: in a create invocation for a database that already exists,
\* index.sql is never read.
C3_ScriptNeverReadWhenDatabaseExists ==
    (IsCreate /\ dbname # "" /\ dbname \in dbs0) => Calls("read") = {}

\* C3 as amended: in a create invocation for a database that already exists,
\* index.sql is never executed, but it is read: an invocation that ends in the
\* duplicate-database failure has read index.sql exactly once, before it
\* issued CREATE DATABASE.
C3_ScriptReadButNeverExecuted ==
    /\ (IsCreate /\ dbname # "" /\ dbname \in dbs0) => Calls("execute_script") = {}
    /\ error = "DuplicateDatabase" =>
         /\ Cardinality(OkCalls("read")) = 1
         /\ Cardinality(Calls("read")) = 1
         /\ sql = indexSql
         /\ \A r \in Calls("read"), c \in Calls("execute_create") : r < c

C3_Witness ==
    /\ pc = "done"
    /\ inv = 1
    /\ error = "DuplicateDatabase"
    /\ dbname \in dbs0
    /\ sql = "CREATE TABLE sentinel (id int);"
    /\ Calls("read") # {}

\* C4: an update or delete invocation, whatever its payload and whatever the
\* databases on the server, opens no connection, issues no statement, does not
\* read index.sql, leaves the databases and their contents unchanged, and ends
\* in success.
C4_UpdateDeleteDoNothing ==
    (event.RequestType \in {"Update", "Delete"})
    => /\ pc \in {"no_op", "done"}
       /\ log = <<>>
       /\ conn = NoConn
       /\ conn2 = NoConn
       /\ sql = ""
       /\ databases = dbs0
       /\ contents = contents0
       /\ error = "none"
       /\ pc = "done" => result = "SUCCESS"

C4_Witness ==
    /\ pc = "done"
    /\ event.RequestType \in {"Update", "Delete"}
    /\ event.payload = "properties"
    /\ result = "SUCCESS"
    /\ "appdb" \in databases
    /\ inv >= 2

\* C5: a create invocation that fails at the second connection or at the
\* script, after its CREATE DATABASE succeeded, ends in failure with the
\* database still on the server; no step of the handler removes a database.
C5_NoRollback ==
    /\ [](\A c \in OkCalls("execute_create") :
            /\ dbname \in databases
            /\ (\E f \in FailedCalls : f > c) =>
                 /\ pc = "done"
                 /\ result = "FAILED"
                 /\ dbname \notin dbs0)
    /\ [][databases \subseteq databases']_vars

C5_Witness ==
    /\ pc = "done"
    /\ result = "FAILED"
    /\ error = "ProgrammingError"
    /\ OkCalls("execute_create") # {}
    /\ dbname \in databases \ dbs0

\* C6: once a CREATE DATABASE of the handler has succeeded for a name, every
\* later create invocation that reaches CREATE DATABASE for that name fails
\* with the duplicate-database error; so the script is issued at most once
\* against that database, and no create invocation for an existing database
\* ends in success.
C6_RetriedCreateFails ==
    /\ [](\A d \in DbNames : createOk[d] <= 1 /\ scriptRuns[d] <= createOk[d])
    /\ []((pc = "done" /\ IsCreate /\ result = "SUCCESS") => dbname \notin dbs0)
    /\ [][(pc = "create_database" /\ createOk[dbname] >= 1 /\ pc' # pc)
          => /\ pc' = "done"
             /\ result' = "FAILED"
             /\ error' = "DuplicateDatabase"
             /\ UNCHANGED <<databases, contents, scriptRuns, createOk>>]_vars

C6_Witness ==
    /\ inv >= 2
    /\ pc = "done"
    /\ IsCreate
    /\ error = "DuplicateDatabase"
    /\ createOk[dbname] = 1
    /\ scriptRuns[dbname] = 1

\* C7: no invocation ends with a connection still open.
C7_ConnectionsClosedAtEnd ==
    pc = "done" => OpenConns = {}

\* C8: at most one connection is open at any time and at most two are opened;
\* the second connection is attempted only after the first has been closed
\* and after CREATE DATABASE has succeeded.
C8_ConnectionsSequential ==
    /\ Cardinality(OpenConns) <= 1
    /\ Cardinality(Calls("connect")) <= 2
    /\ conn2.status # "unset" => conn.status = "closed"
    /\ \A i, j \in Calls("connect") :
         i < j => /\ \E k \in OkCalls("execute_create") : i < k /\ k < j
                  /\ \E k \in Calls("close") : i < k /\ k < j /\ log[k].db = log[i].db
                  /\ log[i].ok

C8_Witness ==
    /\ conn.status = "closed"
    /\ conn2.status = "open"
    /\ Cardinality(Calls("connect")) = 2

\* C9: every statement runs on a connection already in autocommit mode;
\* CREATE DATABASE runs only on the connection to "postgres" and the script
\* only on the connection to the database named by CLAY_DATABASE_NAME.
C9_StatementsOnAutocommitConnections ==
    /\ \A i \in Calls("execute_create") :
         /\ log[i].autocommit
         /\ log[i].db = "postgres"
         /\ log[i].arg = CreateDatabaseStmt(dbname)
    /\ \A i \in Calls("execute_script") :
         /\ log[i].autocommit
         /\ log[i].db = dbname
    /\ pc \in {"create_database", "close"} => conn.autocommit /\ conn.database = "postgres"
    /\ pc \in {"execute_script", "close2"} => conn2.autocommit /\ conn2.database = dbname

C9_Witness ==
    /\ Calls("execute_create") # {}
    /\ Calls("execute_script") # {}
    /\ dbname = "metrics"

\* C10: a create invocation that fails before CREATE DATABASE is issued ends
\* in failure with the databases unchanged; each step is attempted at most
\* once per invocation and no step is attempted after one has failed.
C10_FailFastBeforeCreate ==
    /\ (FailedCalls # {} /\ Calls("execute_create") = {}) =>
         /\ pc = "done"
         /\ result = "FAILED"
         /\ databases = dbs0
         /\ contents = contents0
         /\ Calls("execute_script") = {}
    /\ \A f \in FailedCalls : f = Len(log) /\ pc = "done" /\ result = "FAILED"
    /\ Cardinality(Calls("read")) <= 1
    /\ Cardinality(Calls("execute_create")) <= 1
    /\ Cardinality(Calls("execute_script")) <= 1
    /\ Cardinality(Calls("connect")) <= 2
    /\ \A i, j \in Calls("connect") : i < j => \E k \in Calls("execute_create") : i < k /\ k < j

C10_Witness ==
    /\ pc = "done"
    /\ error = "FileNotFoundError"
    /\ indexSql = NoFile
    /\ Calls("execute_create") = {}
    /\ conn.status = "open"

====
